---- MODULE Spec2Model ----
(***************************************************************************)
(* The notebook "Introduction to Bayesian Inference with Linear            *)
(* Regression": its five objective functions (loss, chi2, negloglike,      *)
(* neglogprior, neglogpost), and the kernel that runs its cells (the data  *)
(* cell, the defining cells, the minimisations, the extraction of the      *)
(* best-fit values and the sampling cell) in whatever order the user       *)
(* executes them.                                                          *)
(*                                                                         *)
(* Numbers.  The data, the parameters and the prior hyperparameters are    *)
(* small integers.  An objective value is a float: a finite value in       *)
(* thousandths (fixed point, rounded toward zero), +inf, -inf or nan, as   *)
(* numpy produces them (a division by zero warns and yields inf or nan,    *)
(* it does not raise), or the exception a call ends in.                    *)
(***************************************************************************)
EXTENDS Integers, Sequences, FiniteSets, TLC

VARIABLES
    inp,        \* the arguments of one direct call of an objective
    out,        \* what that call returned (None before the call)
    ns,         \* the kernel's global namespace: name -> value, None if unbound
    defaults,   \* each defined function's default arguments (__defaults__)
    nextId,     \* identity of the next object minimize() allocates
    grng        \* the global generator np.random: how many sampling calls
                \* have drawn from its stream since the kernel started

vars == <<inp, out, ns, defaults, nextId, grng>>

----------------------------------------------------------------------------
\* Bounds of the model.

\* longest array passed to an objective
MaxN == 3

\* how many FitResult objects one run of the kernel may allocate
MaxFits == 2

\* how far into the stream of the global generator a run of the kernel goes
\* before the sampling cell is run for the last time
MaxDraws == 2

----------------------------------------------------------------------------
\* Optional values: an unbound name, a call that has not returned.

None == <<>>

Some(v) == <<v>>

IsSome(o) == Len(o) = 1

Get(o) == o[1]

----------------------------------------------------------------------------
\* Floats, as numpy computes them.

Fin(v) == [k |-> "fin", v |-> v]

PosInf == [k |-> "inf", v |-> 1]

NegInf == [k |-> "inf", v |-> -1]

NaN == [k |-> "nan", v |-> 0]

\* the call ended in an exception (ValueError: unpacking, broadcasting)
Raised == [k |-> "err", v |-> 0]

IsFinite(a) == a.k = "fin"

IsValue(a) == a.k # "err"

Abs(n) == IF n < 0 THEN -n ELSE n

Sign(n) == IF n < 0 THEN -1 ELSE 1

RECURSIVE Pow(_, _)
Pow(n, p) == IF p = 0 THEN 1 ELSE n * Pow(n, p - 1)

FNeg(a) ==
    CASE a.k = "fin" -> Fin(-a.v)
      [] a.k = "inf" -> [k |-> "inf", v |-> -a.v]
      [] OTHER -> a

FAdd(a, b) ==
    CASE a.k = "err" \/ b.k = "err" -> Raised
      [] a.k = "nan" \/ b.k = "nan" -> NaN
      [] a.k = "inf" /\ b.k = "inf" -> IF a.v = b.v THEN a ELSE NaN
      [] a.k = "inf" -> a
      [] b.k = "inf" -> b
      [] OTHER -> Fin(a.v + b.v)

\* 0.5 * a
FHalf(a) == IF a.k = "fin" THEN Fin(Sign(a.v) * (Abs(a.v) \div 2)) ELSE a

\* num / den of two integers: numpy warns on a zero divisor and returns inf or nan
FDiv(num, den) ==
    IF den = 0
    THEN IF num = 0 THEN NaN ELSE IF num > 0 THEN PosInf ELSE NegInf
    ELSE Fin(Sign(num) * Sign(den) * ((1000 * Abs(num)) \div Abs(den)))

\* ln(2 pi v) in thousandths, v = 1, 2, ...
LnTwoPiTable ==
    << 1838, 2531, 2936, 3224, 3447, 3630, 3784, 3917, 4035, 4140,
       4236, 4323, 4403, 4477, 4546, 4610, 4671, 4728, 4782, 4834,
       4882, 4929, 4973, 5016, 5057, 5096, 5134, 5170, 5205, 5239,
       5272, 5304, 5334, 5364, 5393, 5421, 5449, 5475, 5501, 5527 >>

RECURSIVE LnTwoPi(_)
LnTwoPi(v) ==
    IF v <= Len(LnTwoPiTable) THEN LnTwoPiTable[v] ELSE 693 + LnTwoPi(v \div 2)

\* np.log(2 pi (v - 1)): the argument is off by one
FLogTwoPi_shifted(v) ==
    IF v > 1 THEN Fin(LnTwoPi(v - 1)) ELSE IF v = 1 THEN NegInf ELSE NaN

\* np.log(2 pi v): -inf (with a warning) at 0, nan below
FLogTwoPi(v) ==
    IF v > 0 THEN Fin(LnTwoPi(v)) ELSE IF v = 0 THEN NegInf ELSE NaN

\* np.sum of an array of floats, left to right
RECURSIVE FSum(_)
FSum(a) == IF Len(a) = 0 THEN Fin(0) ELSE FAdd(FSum(SubSeq(a, 1, Len(a) - 1)), a[Len(a)])

----------------------------------------------------------------------------
\* numpy broadcasting of two one-dimensional arrays.

\* the common length, or -1 when the shapes cannot be broadcast together
BLen(a, b) ==
    IF a = b THEN a ELSE IF a = 1 THEN b ELSE IF b = 1 THEN a ELSE -1

\* element i of an array broadcast to a longer one
At(a, i) == IF Len(a) = 1 THEN a[1] ELSE a[i]

----------------------------------------------------------------------------
\* The objectives.

\* ypred = m * x + b
ypred(m, b, x) == [i \in 1..Len(x) |-> m * x[i] + b]

\* |Delta y_i|^p, one term of the loss
resid_p(r, p) == Fin(1000 * Pow(Abs(r), p))

\* |Delta y_i / sigma_i|: the normalised residual, not squared
chi_abs(r, sigma) == FDiv(Abs(r), Abs(sigma))

\* chi_i^2 = (Delta y_i / sigma_i)^2, one term of chi-square
chi_sq(r, sigma) == FDiv(r * r, sigma * sigma)

\* (sigma_i + s)^2: the scatter added to the error, not in quadrature
variance_linear(ye, s, i) == (At(ye, i) + s) * (At(ye, i) + s)

\* sigma_i^2 + s^2, the variance of point i under intrinsic scatter s
variance(ye, s, i) == At(ye, i) * At(ye, i) + s * s

\* (m x_i + b - y_i)^2 / v + 2 ln(2 pi v): the factor 1/2 of the sum then
\* halves the first term only
like_term_fulllog(r, v) ==
    FAdd(FDiv(r * r, v), FAdd(FLogTwoPi(v), FLogTwoPi(v)))

\* (m x_i + b - y_i)^2 / v + ln(2 pi v), one term of the log-likelihood
like_term(r, v) == FAdd(FDiv(r * r, v), FLogTwoPi(v))

\* (j - mu_j)^2 / sigma_j^2 + ln(2 pi sigma_j^2), one term of the log-prior
prior_term(d, std) == FAdd(FDiv(d * d, std * std), FLogTwoPi(std * std))

\* loss(theta, p, x, y): sum |y - ypred|^p
loss(theta, p, x, y) ==
    IF Len(theta) # 2 THEN Raised
    ELSE LET yp == ypred(theta[1], theta[2], x)
             n == BLen(Len(y), Len(yp))
         IN IF n < 0 THEN Raised
            ELSE FSum([i \in 1..n |-> resid_p(At(y, i) - At(yp, i), p)])

\* chi2(theta, x, y, ye): sum ((y - ypred) / ye)^2
chi2(theta, x, y, ye) ==
    IF Len(theta) # 2 THEN Raised
    ELSE LET yp == ypred(theta[1], theta[2], x)
             n1 == BLen(Len(y), Len(yp))
             n == IF n1 < 0 THEN -1 ELSE BLen(n1, Len(ye))
         IN IF n < 0 THEN Raised
            ELSE FSum([i \in 1..n |-> chi_sq(At(y, i) - At(yp, i), At(ye, i))])

\* negloglike(theta, x, y, ye):
\* 0.5 * sum [ (y - ypred)^2 / (ye^2 + s^2) + ln(2 pi (ye^2 + s^2)) ]
negloglike(theta, x, y, ye) ==
    IF Len(theta) # 3 THEN Raised
    ELSE LET yp == ypred(theta[1], theta[2], x)
             n1 == BLen(Len(y), Len(yp))
             n == IF n1 < 0 THEN -1 ELSE BLen(n1, Len(ye))
         IN IF n < 0 THEN Raised
            ELSE LET logl == FNeg(FHalf(FSum([i \in 1..n |->
                                 like_term(At(y, i) - At(yp, i),
                                           variance(ye, theta[3], i))])))
                 IN FNeg(logl)

\* neglogprior(theta, mean, std):
\* 0.5 * sum_j [ (theta_j - mean_j)^2 / std_j^2 + ln(2 pi std_j^2) ]
neglogprior(theta, mean, std) ==
    LET n1 == BLen(Len(theta), Len(mean))
        n == IF n1 < 0 THEN -1 ELSE BLen(n1, Len(std))
    IN IF n < 0 THEN Raised
       ELSE FHalf(FSum([j \in 1..n |->
                   prior_term(At(theta, j) - At(mean, j), At(std, j))]))

\* -(logl - logp): the prior enters with the wrong sign
neglogpost_signslip(theta, x, y, ye, mean, std) ==
    IF Len(theta) # 3 THEN Raised
    ELSE LET logp == neglogprior(theta, mean, std)
             logl == FNeg(negloglike(theta, x, y, ye))
         IN FNeg(FAdd(logl, logp))

\* neglogpost(theta, x, y, ye, mean, std)
neglogpost(theta, x, y, ye, mean, std) ==
    IF Len(theta) # 3 THEN Raised
    ELSE LET logp == FNeg(neglogprior(theta, mean, std))
             logl == FNeg(negloglike(theta, x, y, ye))
         IN FNeg(FAdd(logl, logp))

----------------------------------------------------------------------------
\* Direct calls of the objectives: the arguments are drawn once, the call
\* applies the function to them.

RECURSIVE Ramp(_)
\* <<0, 1, ..., n-1>>
Ramp(n) == IF n = 0 THEN <<>> ELSE Append(Ramp(n - 1), n - 1)

RECURSIVE Const(_, _)
\* <<c, ..., c>>
Const(n, c) == IF n = 0 THEN <<>> ELSE Append(Const(n - 1, c), c)

RECURSIVE Spike(_)
\* <<0, 1, ..., 1>>
Spike(n) == IF n = 0 THEN <<>> ELSE Append(Spike(n - 1), IF n = 1 THEN 0 ELSE 1)

RECURSIVE Line(_)
\* <<1, 2, ..., n>>: the points of y = x + 1 over Ramp(n)
Line(n) == IF n = 0 THEN <<>> ELSE Append(Line(n - 1), n)

Lens == 1..MaxN

XArrs == {Ramp(n) : n \in Lens}

YArrs == {Const(n, 1) : n \in Lens} \cup {Line(n) : n \in Lens}

EArrs == {Const(n, 1) : n \in Lens} \cup {Const(n, 2) : n \in Lens}
         \cup {Spike(n) : n \in Lens}

Theta2 == {<<m, b>> : m \in {0, 1}, b \in {0, 1}}

Theta3 == {<<m, b, s>> : m \in {0, 1}, b \in {0, 1}, s \in {-1, 0, 1}}

Thetas == Theta2 \cup Theta3

PVals == {1, 2}

MeanVals == {<<1, 3, 1>>, <<1, 3, 0>>, <<1, 3>>}

StdVals == {<<1, 2, 1>>, <<1, 2, 0>>, <<1, 2, -1>>, <<2>>}

Args(fn, theta, p, x, y, ye, mean, std) ==
    [fn |-> fn, theta |-> theta, p |-> p, x |-> x, y |-> y, ye |-> ye,
     mean |-> mean, std |-> std]

NoCall == Args("none", <<>>, 0, <<>>, <<>>, <<>>, <<>>, <<>>)

FnInputs ==
    {Args("loss", t, p, x, y, <<>>, <<>>, <<>>) :
        t \in Thetas, p \in PVals, x \in XArrs, y \in YArrs}
    \cup {Args("chi2", t, 0, x, y, e, <<>>, <<>>) :
        t \in Thetas, x \in XArrs, y \in YArrs, e \in EArrs}
    \cup {Args("negloglike", t, 0, x, y, e, <<>>, <<>>) :
        t \in Thetas, x \in XArrs, y \in YArrs, e \in EArrs}
    \cup {Args("neglogprior", t, 0, <<>>, <<>>, <<>>, mu, sd) :
        t \in Thetas, mu \in MeanVals, sd \in StdVals}
    \cup {Args("neglogpost", t, 0, x, y, e, mu, sd) :
        t \in Thetas, x \in XArrs, y \in YArrs, e \in EArrs,
        mu \in MeanVals, sd \in StdVals}

\* the kernel before any cell has run
FreshNs ==
    [x |-> None, y |-> None, ye |-> None,
     prior_means |-> None, prior_stds |-> None,
     by_eye |-> None, loss_m |-> None, results |-> None,
     best |-> [k \in 2..5 |-> None],
     prior_samples |-> None, post_samples |-> None]

FreshDefaults == [f \in {"loss", "chi2", "negloglike", "neglogprior", "neglogpost"} |-> None]

InitFn ==
    /\ inp \in FnInputs
    /\ out = None
    /\ ns = FreshNs
    /\ defaults = FreshDefaults
    /\ nextId = 1
    /\ grng = 0

CallLoss ==
    /\ inp.fn = "loss" /\ out = None
    /\ out' = Some(loss(inp.theta, inp.p, inp.x, inp.y))
    /\ UNCHANGED <<inp, ns, defaults, nextId, grng>>

CallChi2 ==
    /\ inp.fn = "chi2" /\ out = None
    /\ out' = Some(chi2(inp.theta, inp.x, inp.y, inp.ye))
    /\ UNCHANGED <<inp, ns, defaults, nextId, grng>>

CallNegLogLike ==
    /\ inp.fn = "negloglike" /\ out = None
    /\ out' = Some(negloglike(inp.theta, inp.x, inp.y, inp.ye))
    /\ UNCHANGED <<inp, ns, defaults, nextId, grng>>

CallNegLogPrior ==
    /\ inp.fn = "neglogprior" /\ out = None
    /\ out' = Some(neglogprior(inp.theta, inp.mean, inp.std))
    /\ UNCHANGED <<inp, ns, defaults, nextId, grng>>

CallNegLogPost ==
    /\ inp.fn = "neglogpost" /\ out = None
    /\ out' = Some(neglogpost(inp.theta, inp.x, inp.y, inp.ye, inp.mean, inp.std))
    /\ UNCHANGED <<inp, ns, defaults, nextId, grng>>

NextFn == CallLoss \/ CallChi2 \/ CallNegLogLike \/ CallNegLogPrior \/ CallNegLogPost

SpecFn == InitFn /\ [][NextFn]_vars

\* the call of objective fn has returned (or raised)
Called(fn) == inp.fn = fn /\ IsSome(out)

\* x, y, ye form a DataSet: index-aligned, N >= 1, every sigma_i >= 0
IsDataSet(x, y, ye) ==
    /\ Len(x) >= 1 /\ Len(y) = Len(x) /\ Len(ye) = Len(x)
    /\ \A i \in 1..Len(ye) : ye[i] >= 0

\* mean, std form a PriorSpec for a three-parameter theta: every std_j > 0
IsPriorSpec(mean, std) ==
    /\ Len(mean) = 3 /\ Len(std) = 3
    /\ \A j \in 1..3 : std[j] > 0

----------------------------------------------------------------------------
\* The naive statistic the notebook considers before it defines a model:
\* chi-square with the intrinsic scatter added to the errors.

\* s^2 + sum_i chi_i^2: the penalised statistic the notebook writes next
chi2_penalised(theta, x, y, ye) ==
    LET yp == ypred(theta[1], theta[2], x)
    IN FAdd(Fin(1000 * theta[3] * theta[3]),
            FSum([i \in 1..Len(x) |->
                     FDiv((y[i] - yp[i]) * (y[i] - yp[i]),
                          (ye[i] + theta[3]) * (ye[i] + theta[3]))]))

\* sum_i chi_i^2 with chi_i = |Delta y_i / (sigma_i + s)|
chi2_naive(theta, x, y, ye) ==
    LET yp == ypred(theta[1], theta[2], x)
    IN FSum([i \in 1..Len(x) |->
                FDiv((y[i] - yp[i]) * (y[i] - yp[i]),
                     (ye[i] + theta[3]) * (ye[i] + theta[3]))])

\* the statistic at one (m, b), one DataSet and two scatters s1 < s2
NaiveInputs ==
    UNION {
        {[fn |-> "chi2_naive", m |-> m, b |-> b, s1 |-> s1, s2 |-> s2,
          x |-> Ramp(n), y |-> y, ye |-> e] :
            m \in {0, 1}, b \in {0, 1}, s1 \in 0..1, s2 \in 1..2,
            y \in {Const(n, 1), Line(n)},
            e \in {Const(n, 1), Const(n, 2), Spike(n)}} : n \in Lens}

InitNaive ==
    /\ inp \in {i \in NaiveInputs : i.s1 < i.s2}
    /\ out = <<>>
    /\ ns = FreshNs
    /\ defaults = FreshDefaults
    /\ nextId = 1
    /\ grng = 0

\* the statistic evaluated at s1, then at s2
CallNaive ==
    /\ inp.fn = "chi2_naive" /\ Len(out) < 2
    /\ LET sc == IF Len(out) = 0 THEN inp.s1 ELSE inp.s2
       IN out' = Append(out, chi2_naive(<<inp.m, inp.b, sc>>, inp.x, inp.y, inp.ye))
    /\ UNCHANGED <<inp, ns, defaults, nextId, grng>>

NextNaive == CallNaive

SpecNaive == InitNaive /\ [][NextNaive]_vars

----------------------------------------------------------------------------
\* The mock data (gen_mock_data).

RECURSIVE Lcg(_, _)
\* np.random.RandomState(seed): the k-th state of a generator that depends on
\* nothing but its seed
Lcg(seed, k) == IF k = 0 THEN seed % 16 ELSE (5 * Lcg(seed, k - 1) + 3) % 16

\* the k-th draw of the generator, one of 0, 1, 2
Draw(seed, k) == (Lcg(seed, k) \div 2) % 3

RECURSIVE Insert(_, _)
Insert(a, v) ==
    IF Len(a) = 0 THEN <<v>>
    ELSE IF v >= a[Len(a)] THEN Append(a, v)
    ELSE Append(Insert(SubSeq(a, 1, Len(a) - 1), v), a[Len(a)])

RECURSIVE Sort(_)
\* np.sort
Sort(a) == IF Len(a) = 0 THEN <<>> ELSE Insert(Sort(SubSeq(a, 1, Len(a) - 1)), a[Len(a)])

RECURSIVE Tabulate(_, _)
\* <<f[1], ..., f[n]>>
Tabulate(f, n) == IF n = 0 THEN <<>> ELSE Append(Tabulate(f, n - 1), f[n])

\* the draws are taken from the global generator where it stands, the seed
\* is not used
gen_mock_data_global(seed, m, b, s, unc, N) ==
    LET xs == Sort(Tabulate([i \in 1..N |-> Draw(grng, i)], N))
        y_int == [i \in 1..N |-> m * xs[i] + b]
        yy == [i \in 1..N |-> y_int[i] + s * (Draw(grng, N + i) - 1)]
        yerr == [i \in 1..N |->
                    unc[1] + ((unc[2] - unc[1]) * Draw(grng, 2 * N + i)) \div 3]
        yobs == [i \in 1..N |-> yy[i] + yerr[i] * (Draw(grng, 3 * N + i) - 1)]
    IN [x |-> xs, y |-> Tabulate(yobs, N), ye |-> Tabulate(yerr, N)]

\* gen_mock_data(seed, m, b, s, unc, N): the draws are taken in the order
\* x, intrinsic-scatter y, yerr, observed y
gen_mock_data(seed, m, b, s, unc, N) ==
    LET xs == Sort(Tabulate([i \in 1..N |-> Draw(seed, i)], N))
        y_int == [i \in 1..N |-> m * xs[i] + b]
        yy == [i \in 1..N |-> y_int[i] + s * (Draw(seed, N + i) - 1)]
        yerr == [i \in 1..N |->
                    unc[1] + ((unc[2] - unc[1]) * Draw(seed, 2 * N + i)) \div 3]
        yobs == [i \in 1..N |-> yy[i] + yerr[i] * (Draw(seed, 3 * N + i) - 1)]
    IN [x |-> xs, y |-> Tabulate(yobs, N), ye |-> Tabulate(yerr, N)]

\* the defaults of gen_mock_data, which the data cell as written passes
DefaultArgs ==
    {[seed |-> 123, m |-> 1, b |-> 1, s |-> 1, unc |-> <<1, 3>>, N |-> 2]}

\* the defaults, or an edit of them
GenArgs ==
    DefaultArgs \cup
    {[seed |-> 7, m |-> 1, b |-> 1, s |-> 1, unc |-> <<0, 3>>, N |-> 2]}

\* Direct calls of gen_mock_data, with draws from the global generator by
\* other code in between.  The arguments are among those numpy accepts
\* (N >= 0, s >= 0, unc >= 0: a negative size or scale raises ValueError).

GenInputs ==
    {[fn |-> "gen_mock_data", seed |-> seed, m |-> 1, b |-> 1, s |-> sc,
      unc |-> unc, N |-> n] :
        seed \in {123, 7}, sc \in {0, 1}, unc \in {<<1, 3>>, <<0, 3>>},
        n \in 0..MaxN}

InitGen ==
    /\ inp \in GenInputs
    /\ out = <<>>
    /\ ns = FreshNs
    /\ defaults = FreshDefaults
    /\ nextId = 1
    /\ grng = 0

\* gen_mock_data(seed, m, b, s, unc, N), called up to twice with the same
\* arguments; `at` records where the global generator stood at the call
CallGen ==
    /\ inp.fn = "gen_mock_data" /\ Len(out) < 2
    /\ out' = Append(out,
                 [data |-> gen_mock_data(inp.seed, inp.m, inp.b, inp.s, inp.unc, inp.N),
                  at |-> grng])
    /\ UNCHANGED <<inp, ns, defaults, nextId, grng>>

\* one np.random.multivariate_normal(...) call, as in the sampling cell: it
\* draws from the global generator
DrawGlobal ==
    /\ grng < MaxDraws
    /\ grng' = grng + 1
    /\ UNCHANGED <<inp, out, ns, defaults, nextId>>

NextGen == CallGen \/ DrawGlobal

SpecGen == InitGen /\ [][NextGen]_vars

----------------------------------------------------------------------------
\* Matrices: the covariance of a FitResult, the covariance of the prior.

Identity(n) == [i \in 1..n |-> [j \in 1..n |-> IF i = j THEN 1 ELSE 0]]

\* symmetric, with a negative eigenvalue
Indefinite(n) ==
    [i \in 1..n |-> [j \in 1..n |-> IF i = j THEN (IF i = n THEN -1 ELSE 1) ELSE 0]]

\* np.diag(v**2)
DiagSq(v) ==
    [i \in 1..Len(v) |-> [j \in 1..Len(v) |-> IF i = j THEN v[i] * v[i] ELSE 0]]

IsSquare(c, n) == Len(c) = n /\ \A i \in 1..n : Len(c[i]) = n

Det3(c) ==
    c[1][1] * (c[2][2] * c[3][3] - c[2][3] * c[3][2])
    - c[1][2] * (c[2][1] * c[3][3] - c[2][3] * c[3][1])
    + c[1][3] * (c[2][1] * c[3][2] - c[2][2] * c[3][1])

\* symmetric positive semi-definite (every principal minor >= 0), for the
\* dimensions 1, 2, 3 the notebook uses
IsPSD(c) ==
    LET n == Len(c)
    IN /\ \A i, j \in 1..n : c[i][j] = c[j][i]
       /\ \A i \in 1..n : c[i][i] >= 0
       /\ \A i, j \in 1..n : i < j => c[i][i] * c[j][j] - c[i][j] * c[j][i] >= 0
       /\ n = 3 => Det3(c) >= 0

----------------------------------------------------------------------------
\* The kernel: the notebook's cells, run in any order.

\* the functions the notebook defines
Fns == {"loss", "chi2", "negloglike", "neglogprior", "neglogpost"}

\* the objective reads the notebook's globals when called, not the defaults
\* bound when it was defined
call_globals(fn, theta) ==
    CASE fn = "loss" -> loss(theta, 2, Get(ns.x), Get(ns.y))
      [] fn = "chi2" -> chi2(theta, Get(ns.x), Get(ns.y), Get(ns.ye))
      [] fn = "negloglike" -> negloglike(theta, Get(ns.x), Get(ns.y), Get(ns.ye))
      [] fn = "neglogprior" ->
            neglogprior(theta, Get(ns.prior_means), Get(ns.prior_stds))
      [] fn = "neglogpost" ->
            neglogpost(theta, Get(ns.x), Get(ns.y), Get(ns.ye),
                       Get(ns.prior_means), Get(ns.prior_stds))

\* neglogpost leaves the likelihood to negloglike's own defaults instead of
\* passing on the x, y, ye it captured
call_default_nested(fn, theta) ==
    LET d == Get(defaults[fn])
    IN CASE fn = "loss" -> loss(theta, 2, d.x, d.y)
         [] fn = "chi2" -> chi2(theta, d.x, d.y, d.ye)
         [] fn = "negloglike" -> negloglike(theta, d.x, d.y, d.ye)
         [] fn = "neglogprior" -> neglogprior(theta, d.mean, d.std)
         [] fn = "neglogpost" ->
               LET dl == Get(defaults["negloglike"])
               IN neglogpost(theta, dl.x, dl.y, dl.ye, d.mean, d.std)

\* an objective called with its default arguments
call_default(fn, theta) ==
    LET d == Get(defaults[fn])
    IN CASE fn = "loss" -> loss(theta, 2, d.x, d.y)
         [] fn = "chi2" -> chi2(theta, d.x, d.y, d.ye)
         [] fn = "negloglike" -> negloglike(theta, d.x, d.y, d.ye)
         [] fn = "neglogprior" -> neglogprior(theta, d.mean, d.std)
         [] fn = "neglogpost" -> neglogpost(theta, d.x, d.y, d.ye, d.mean, d.std)

\* every name fn looks up when called is bound: neglogpost calls neglogprior
\* and negloglike by name
Callable(fn) ==
    /\ IsSome(defaults[fn])
    /\ fn = "neglogpost" => IsSome(defaults["neglogprior"]) /\ IsSome(defaults["negloglike"])

\* number of parameters the objective unpacks from theta
Dim(fn) == IF fn \in {"loss", "chi2"} THEN 2 ELSE 3

\* x, y, ye = gen_mock_data(...), the arguments drawn from A
CellData(A) ==
    /\ \E a \in A :
        LET d == gen_mock_data(a.seed, a.m, a.b, a.s, a.unc, a.N)
        IN ns' = [ns EXCEPT !.x = Some(d.x), !.y = Some(d.y), !.ye = Some(d.ye)]
    /\ UNCHANGED <<inp, out, defaults, nextId, grng>>

\* m_1, b_1 = <the user's guess>
CellByEye ==
    /\ ns' = [ns EXCEPT !.by_eye = Some(<<1, 1>>)]
    /\ UNCHANGED <<inp, out, defaults, nextId, grng>>

\* def loss(theta, p=2., x=x, y=y)
CellDefLoss ==
    /\ IsSome(ns.x) /\ IsSome(ns.y)
    /\ defaults' = [defaults EXCEPT !["loss"] = Some([x |-> Get(ns.x), y |-> Get(ns.y)])]
    /\ UNCHANGED <<inp, out, ns, nextId, grng>>

\* def chi2(theta, x=x, y=y, ye=ye)
CellDefChi2 ==
    /\ IsSome(ns.x) /\ IsSome(ns.y) /\ IsSome(ns.ye)
    /\ defaults' = [defaults EXCEPT !["chi2"] =
                        Some([x |-> Get(ns.x), y |-> Get(ns.y), ye |-> Get(ns.ye)])]
    /\ UNCHANGED <<inp, out, ns, nextId, grng>>

\* def negloglike(theta, x=x, y=y, ye=ye)
CellDefNegLogLike ==
    /\ IsSome(ns.x) /\ IsSome(ns.y) /\ IsSome(ns.ye)
    /\ defaults' = [defaults EXCEPT !["negloglike"] =
                        Some([x |-> Get(ns.x), y |-> Get(ns.y), ye |-> Get(ns.ye)])]
    /\ UNCHANGED <<inp, out, ns, nextId, grng>>

\* the priors the user may write into the cell
PriorChoices ==
    {[mean |-> <<1, 3, 1>>, std |-> <<1, 2, 1>>],
     [mean |-> <<1, 1, 0>>, std |-> <<2, 2, 2>>]}

\* prior_means = ...; prior_stds = ...; def neglogprior(...); def neglogpost(...)
\* The assignments come first: they stay when a def below them fails.
CellDefPosterior ==
    \E pr \in PriorChoices :
        /\ ns' = [ns EXCEPT !.prior_means = Some(pr.mean), !.prior_stds = Some(pr.std)]
        /\ defaults' =
              [defaults EXCEPT
                  !["neglogprior"] = Some([mean |-> pr.mean, std |-> pr.std]),
                  !["neglogpost"] =
                      IF IsSome(ns.x) /\ IsSome(ns.y) /\ IsSome(ns.ye)
                      THEN Some([x |-> Get(ns.x), y |-> Get(ns.y), ye |-> Get(ns.ye),
                                 mean |-> pr.mean, std |-> pr.std])
                      ELSE @]
        /\ UNCHANGED <<inp, out, nextId, grng>>

\* mgrid, over which the grid cell scans the slope
mgrid == <<0, 1>>

\* [loss([m, b_1], p=2.) for m in mgrid]
grid_scan(b_1) ==
    [i \in 1..Len(mgrid) |-> call_default("loss", <<mgrid[i], b_1>>)]

\* loss_m = np.array([loss([m, b_1], p=2.) for m in mgrid]).  With the values,
\* the model keeps the function object (its defaults) and the b_1 they were
\* computed with.
CellGrid ==
    /\ Callable("loss") /\ IsSome(ns.by_eye)
    /\ ns' = [ns EXCEPT !.loss_m =
                 Some([val |-> grid_scan(Get(ns.by_eye)[2]),
                       fn |-> defaults["loss"], at |-> ns.by_eye])]
    /\ UNCHANGED <<inp, out, defaults, nextId, grng>>

\* the initial guess handed to minimize
x0(n) == Const(n, 1)

\* the candidates among which the minimiser settles
Candidates(n) == IF n = 2 THEN Theta2 ELSE Theta3

\* a precedes b in the fixed order that breaks ties
RECURSIVE Before(_, _)
Before(a, b) ==
    IF Len(a) = 0 THEN FALSE
    ELSE a[1] < b[1] \/ (a[1] = b[1] /\ Before(Tail(a), Tail(b)))

\* the candidate at which the objective is least
argmin(fn, n) ==
    LET f == [t \in Candidates(n) |-> call_default(fn, t)]
        Finite == {t \in Candidates(n) : IsFinite(f[t])}
    IN IF Finite = {} THEN x0(n)
       ELSE CHOOSE t \in Finite :
               \A u \in Finite :
                   f[t].v < f[u].v \/ (f[t].v = f[u].v /\ (t = u \/ Before(t, u)))

\* the optimizer hands out one result object and overwrites it on every run
minimize_shared(fn, n, converged, hess, id) ==
    LET finite == IsFinite(call_default(fn, x0(n)))
        ok == finite /\ converged
        xbest == IF ok THEN argmin(fn, n) ELSE x0(n)
    IN [id |-> 1, of |-> fn, success |-> ok,
        x |-> xbest, fun |-> call_default(fn, xbest),
        hess_inv |-> IF finite THEN hess ELSE Identity(n)]

\* minimize(fn, x0): the OptimizeResult of a run from a guess of length n.
\* The run fails when the objective is not finite at the guess; otherwise it
\* may converge or not, and its inverse-Hessian estimate may be any
\* symmetric matrix.  `fun` is the objective at x, `of` records which
\* objective was minimised, `id` is the identity of the object returned.
minimize(fn, n, converged, hess, id) ==
    LET finite == IsFinite(call_default(fn, x0(n)))
        ok == finite /\ converged
        xbest == IF ok THEN argmin(fn, n) ELSE x0(n)
    IN [id |-> id, of |-> fn, success |-> ok,
        x |-> xbest, fun |-> call_default(fn, xbest),
        hess_inv |-> IF finite THEN hess ELSE Identity(n)]

\* results = minimize(fn, ...).  A guess of the wrong length makes the
\* objective raise, and the exception leaves `results` as it was.
CellMinimize(fn) ==
    /\ Callable(fn)
    /\ nextId <= MaxFits
    /\ \E converged \in BOOLEAN, hess \in {Identity(Dim(fn)), Indefinite(Dim(fn))} :
          ns' = [ns EXCEPT !.results =
                    Some(minimize(fn, Dim(fn), converged, hess, nextId))]
    /\ nextId' = nextId + 1
    /\ UNCHANGED <<inp, out, defaults, grng>>

\* m_k, b_k = results['x']  (k = 2, 3);  m_k, b_k, s_k = results['x']  (k = 4, 5)
CellBest(k) ==
    /\ IsSome(ns.results)
    /\ Len(Get(ns.results).x) = (IF k \in {2, 3} THEN 2 ELSE 3)
    /\ ns' = [ns EXCEPT !.best[k] = Some(Get(ns.results).x)]
    /\ UNCHANGED <<inp, out, defaults, nextId, grng>>

\* np.random.multivariate_normal(mean, cov, size=n) with check_valid left at
\* its default 'warn': the samples, described by the distribution they are
\* drawn from, and whether the call warned that cov is not PSD
multivariate_normal(mean, cov) ==
    [mean |-> mean, cov |-> cov, warned |-> ~IsPSD(cov)]

\* m_prior, b_prior, s_prior = multivariate_normal(prior_means, diag(prior_stds**2)).T
\* m_post, b_post, s_post = multivariate_normal(results['x'], results['hess_inv']).T
\* The prior samples stay bound when the second statement fails (results
\* unbound, or a two-parameter fit that does not unpack into three names).
\* Each call that is made draws from the global generator: the first always,
\* the second unless `results` is unbound (a two-parameter fit is sampled
\* before the unpacking fails).
CellSample ==
    /\ IsSome(ns.prior_means) /\ IsSome(ns.prior_stds)
    /\ grng < MaxDraws
    /\ ns' = [ns EXCEPT
                 !.prior_samples =
                     Some(multivariate_normal(Get(ns.prior_means),
                                              DiagSq(Get(ns.prior_stds)))),
                 !.post_samples =
                     IF IsSome(ns.results) /\ Len(Get(ns.results).x) = 3
                     THEN Some(multivariate_normal(Get(ns.results).x,
                                                   Get(ns.results).hess_inv))
                     ELSE @]
    /\ grng' = grng + (IF IsSome(ns.results) THEN 2 ELSE 1)
    /\ UNCHANGED <<inp, out, defaults, nextId>>

Init ==
    /\ inp = NoCall
    /\ out = None
    /\ ns = FreshNs
    /\ defaults = FreshDefaults
    /\ nextId = 1
    /\ grng = 0

Next ==
    \/ CellData(GenArgs)
    \/ CellByEye
    \/ CellDefLoss
    \/ CellDefChi2
    \/ CellDefNegLogLike
    \/ CellDefPosterior
    \/ CellGrid
    \/ \E fn \in Fns \ {"neglogprior"} : CellMinimize(fn)
    \/ \E k \in 2..5 : CellBest(k)
    \/ CellSample

Spec == Init /\ [][Next]_vars

\* The fitting cells: the data cell as written, the defining cells, the
\* minimisations and the extraction of the best-fit values.  The cells left
\* out (CellByEye, CellGrid, CellSample) write only by_eye, loss_m and the
\* samples, which no cell kept here reads.
NextFit ==
    \/ CellData(DefaultArgs)
    \/ CellDefLoss
    \/ CellDefChi2
    \/ CellDefNegLogLike
    \/ CellDefPosterior
    \/ \E fn \in Fns \ {"neglogprior"} : CellMinimize(fn)
    \/ \E k \in 2..5 : CellBest(k)

SpecFit == Init /\ [][NextFit]_vars

\* The cells the sampling cell depends on, and the sampling cell.  The cells
\* left out (CellByEye, CellGrid, CellBest) write only by_eye, loss_m and the
\* best-fit values, which no cell kept here reads.
NextSample ==
    \/ CellData(DefaultArgs)
    \/ CellDefLoss
    \/ CellDefChi2
    \/ CellDefNegLogLike
    \/ CellDefPosterior
    \/ \E fn \in Fns \ {"neglogprior"} : CellMinimize(fn)
    \/ CellSample

SpecSample == Init /\ [][NextSample]_vars

\* Evaluation, minimisation and sampling side by side, with the data cell
\* re-run on edited arguments.
NextEval ==
    \/ CellData(GenArgs)
    \/ CellByEye
    \/ CellDefLoss
    \/ CellDefPosterior
    \/ CellGrid
    \/ CellMinimize("loss")
    \/ CellSample

SpecEval == Init /\ [][NextEval]_vars

\* The defining cells and the minimisations of the first and the last
\* objective, with the data cell re-run on edited arguments between them.
NextCapture ==
    \/ CellData(GenArgs)
    \/ CellDefLoss
    \/ CellDefChi2
    \/ CellDefNegLogLike
    \/ CellDefPosterior
    \/ \E fn \in {"loss", "neglogpost"} : CellMinimize(fn)

SpecCapture == Init /\ [][NextCapture]_vars

----------------------------------------------------------------------------
\* Claims about the objectives, checked under SpecFn.

\* theta with the sign of its intrinsic scatter flipped
NegS(theta) == <<theta[1], theta[2], -theta[3]>>

\* C1: whenever neglogpost has been called, what it returned is
\* negloglike(theta) + neglogprior(theta), both evaluated on the theta, the
\* data and the prior means/stds that were passed to neglogpost.
C1_PosteriorIsSum ==
    Called("neglogpost") =>
        Get(out) = FAdd(negloglike(inp.theta, inp.x, inp.y, inp.ye),
                        neglogprior(inp.theta, inp.mean, inp.std))

\* neglogpost returned a finite value for a DataSet of two or more points
\* and a prior whose term is not zero
C1_Witness ==
    /\ Called("neglogpost") /\ IsFinite(Get(out))
    /\ IsDataSet(inp.x, inp.y, inp.ye) /\ Len(inp.x) >= 2
    /\ IsPriorSpec(inp.mean, inp.std)
    /\ neglogprior(inp.theta, inp.mean, inp.std) # Fin(0)
    /\ negloglike(inp.theta, inp.x, inp.y, inp.ye) # Fin(0)

\* C2: whenever chi2 has been called with theta = (m, b) on a DataSet in
\* which every sigma_i = 1, what it returned is loss(theta, p = 2) on the
\* same x and y.
C2_Chi2IsLossAtUnitSigma ==
    (/\ Called("chi2") /\ Len(inp.theta) = 2
     /\ IsDataSet(inp.x, inp.y, inp.ye)
     /\ \A i \in 1..Len(inp.ye) : inp.ye[i] = 1)
    => Get(out) = loss(inp.theta, 2, inp.x, inp.y)

\* chi2 returned a value that is neither 0 nor the sum of |residual| on a
\* DataSet of two or more points with unit sigma
C2_Witness ==
    /\ Called("chi2") /\ Len(inp.theta) = 2
    /\ IsDataSet(inp.x, inp.y, inp.ye) /\ Len(inp.x) >= 2
    /\ \A i \in 1..Len(inp.ye) : inp.ye[i] = 1
    /\ IsFinite(Get(out)) /\ Get(out).v > 0
    /\ Get(out) # loss(inp.theta, 1, inp.x, inp.y)

\* the call was made with a parameter vector of the length its objective
\* unpacks, on a DataSet, under a PriorSpec
WellFormedCall ==
    /\ inp.fn \in {"loss", "chi2"} => Len(inp.theta) = 2
    /\ inp.fn \in {"negloglike", "neglogprior", "neglogpost"} => Len(inp.theta) = 3
    /\ inp.fn = "loss" => (Len(inp.x) >= 1 /\ Len(inp.y) = Len(inp.x))
    /\ inp.fn \in {"chi2", "negloglike", "neglogpost"} => IsDataSet(inp.x, inp.y, inp.ye)
    /\ inp.fn \in {"neglogprior", "neglogpost"} => IsPriorSpec(inp.mean, inp.std)

\* C3 as stated: every objective returns a finite number for every theta and
\* every DataSet with N >= 1 and sigma_i >= 0, sigma_i = 0 and s = 0 included.
C3_AlwaysFinite ==
    (IsSome(out) /\ WellFormedCall) => IsFinite(Get(out))

\* no division by zero occurs in the call: every sigma_i > 0 for chi2, every
\* sigma_i^2 + s^2 > 0 for negloglike and neglogpost
NoZeroDivisor ==
    /\ inp.fn = "chi2" => \A i \in 1..Len(inp.ye) : inp.ye[i] > 0
    /\ inp.fn \in {"negloglike", "neglogpost"} =>
           \A i \in 1..Len(inp.ye) : variance(inp.ye, inp.theta[3], i) > 0

\* C3, amended: every objective returns a finite number for every theta and
\* every DataSet with N >= 1 in which no divisor is zero (sigma_i > 0 for
\* chi2, sigma_i^2 + s^2 > 0 for negloglike and neglogpost).
C3_FiniteWithoutZeroDivisor ==
    (IsSome(out) /\ WellFormedCall /\ NoZeroDivisor) => IsFinite(Get(out))

\* negloglike returned a finite value on a DataSet with a sigma_i = 0, the
\* scatter s being non-zero
C3_Witness ==
    /\ Called("negloglike") /\ WellFormedCall /\ NoZeroDivisor
    /\ \E i \in 1..Len(inp.ye) : inp.ye[i] = 0
    /\ IsFinite(Get(out))

\* C4: chi2 called on a DataSet with some sigma_i = 0 ends in an error; it
\* returns no value.
C4_Chi2RaisesOnZeroSigma ==
    (/\ Called("chi2") /\ Len(inp.theta) = 2
     /\ IsDataSet(inp.x, inp.y, inp.ye)
     /\ \E i \in 1..Len(inp.ye) : inp.ye[i] = 0)
    => Get(out) = Raised

\* the arguments of the call are malformed: arrays of unequal lengths among
\* those the objective reads, or a std_j <= 0
Malformed ==
    \/ inp.fn = "loss" /\ Len(inp.x) # Len(inp.y)
    \/ /\ inp.fn \in {"chi2", "negloglike", "neglogpost"}
       /\ (Len(inp.x) # Len(inp.y) \/ Len(inp.x) # Len(inp.ye))
    \/ /\ inp.fn \in {"neglogprior", "neglogpost"}
       /\ \/ Len(inp.mean) # Len(inp.std)
          \/ \E j \in 1..Len(inp.std) : inp.std[j] <= 0

\* C5: a call with malformed arguments ends in an error; no objective value
\* is produced from them.
C5_MalformedRaises ==
    (IsSome(out) /\ Malformed) => Get(out) = Raised

\* the value of the called objective at (m, b, -s), same data, same prior
ValueAtNegS ==
    CASE inp.fn = "negloglike" -> negloglike(NegS(inp.theta), inp.x, inp.y, inp.ye)
      [] inp.fn = "neglogprior" -> neglogprior(NegS(inp.theta), inp.mean, inp.std)
      [] inp.fn = "neglogpost" ->
            neglogpost(NegS(inp.theta), inp.x, inp.y, inp.ye, inp.mean, inp.std)

\* C10 as stated: each objective that takes s returns at (m, b, s) what it
\* returns at (m, b, -s).
C10_SymmetricInS ==
    (/\ IsSome(out) /\ Len(inp.theta) = 3
     /\ inp.fn \in {"negloglike", "neglogprior", "neglogpost"})
    => Get(out) = ValueAtNegS

\* C10, amended: negloglike returns at (m, b, s) what it returns at
\* (m, b, -s); neglogprior and neglogpost do when the prior mean of s is 0.
C10_SymmetricInSAtZeroMean ==
    (/\ IsSome(out) /\ Len(inp.theta) = 3
     /\ inp.fn \in {"negloglike", "neglogprior", "neglogpost"}
     /\ inp.fn # "negloglike" => (Len(inp.mean) = 3 /\ inp.mean[3] = 0))
    => Get(out) = ValueAtNegS

\* neglogpost returned a finite value at s # 0 under a prior whose mean of s
\* is 0, on a DataSet
C10_Witness ==
    /\ Called("neglogpost") /\ inp.theta \in Theta3 /\ inp.theta[3] # 0
    /\ Len(inp.mean) = 3 /\ inp.mean[3] = 0
    /\ IsDataSet(inp.x, inp.y, inp.ye)
    /\ IsFinite(Get(out))

----------------------------------------------------------------------------
\* Claims about the kernel.

\* C6: no step consumes the result of a failed minimisation: whenever a cell
\* extracts the best-fit values m_k, b_k (, s_k) from `results`, the
\* minimisation that produced `results` succeeded.  (SpecFit)
C6_FailedFitNotConsumed ==
    [][\A k \in 2..5 : CellBest(k) => Get(ns.results).success]_vars

\* C7: the sampler returns no samples for a covariance that is not positive
\* semi-definite: every sample array the sampling cell has bound was drawn
\* with a PSD covariance.  (SpecSample)
C7_NonPSDRejected ==
    /\ IsSome(ns.prior_samples) => IsPSD(Get(ns.prior_samples).cov)
    /\ IsSome(ns.post_samples) => IsPSD(Get(ns.post_samples).cov)

\* what an evaluation, a minimisation or a sampling step leaves as it was:
\* the data, the prior, every function's defaults, and the FitResult object
\* that was bound before the step
ReadOnly ==
    /\ ns'.x = ns.x /\ ns'.y = ns.y /\ ns'.ye = ns.ye
    /\ ns'.prior_means = ns.prior_means /\ ns'.prior_stds = ns.prior_stds
    /\ defaults' = defaults
    /\ (IsSome(ns.results) /\ IsSome(ns'.results)
        /\ Get(ns'.results).id = Get(ns.results).id) => ns'.results = ns.results

\* evaluating loss again, same function object and same b_1, returns what
\* the grid cell stored
SameOnReevaluation ==
    (/\ IsSome(ns.loss_m)
     /\ Get(ns.loss_m).fn = defaults["loss"]
     /\ Get(ns.loss_m).at = ns.by_eye)
    => Get(ns.loss_m).val = grid_scan(Get(ns.by_eye)[2])

\* C8: every evaluation, minimisation and sampling step leaves x, y, ye, the
\* prior means/stds, the functions' bound data and the FitResult returned
\* before it unchanged; and evaluating the same objective again on the same
\* theta returns the value it returned before, whatever ran in between.
\* (SpecEval)
C8_PureAndReadOnly ==
    /\ []SameOnReevaluation
    /\ [][(\/ CellGrid
           \/ \E fn \in Fns \ {"neglogprior"} : CellMinimize(fn)
           \/ CellSample) => ReadOnly]_vars

\* loss has been evaluated on the grid, a minimisation and a sampling call
\* have run, and the data cell has since rebound x, y to other arrays than
\* the ones loss was defined with
C8_Witness ==
    /\ IsSome(ns.loss_m) /\ IsSome(ns.results) /\ IsSome(ns.prior_samples)
    /\ Get(ns.loss_m).fn = defaults["loss"]
    /\ Get(defaults["loss"]).y # Get(ns.y)

\* the covariance of a FitResult is square, of the dimension of its point
\* estimate: 2 for loss and chi2, 3 for negloglike and neglogpost
FitResultShape ==
    IsSome(ns.results) =>
        LET r == Get(ns.results)
        IN Len(r.x) = Dim(r.of) /\ IsSquare(r.hess_inv, Len(r.x))

\* C9: the FitResult bound to `results` has a square covariance of the
\* dimension of its point estimate (2 for loss and chi2, 3 for negloglike and
\* neglogpost); a step that changes what `results` holds binds a freshly
\* allocated object, so no object is modified once returned.  (SpecSample)
C9_FitResultFreshAndFixed ==
    /\ []FitResultShape
    /\ [][ns'.results # ns.results =>
            /\ IsSome(ns'.results)
            /\ Get(ns'.results).id >= nextId
            /\ nextId' > Get(ns'.results).id]_vars

\* posterior samples have been drawn from a three-parameter FitResult, and a
\* later minimisation has bound a two-parameter one to `results`
C9_Witness ==
    /\ IsSome(ns.post_samples)
    /\ IsSome(ns.results) /\ Get(ns.results).id = 2
    /\ Len(Get(ns.results).x) = 2

----------------------------------------------------------------------------
\* Claims about gen_mock_data, checked under SpecGen.

\* C11: every DataSet gen_mock_data has returned has x, y and sigma of one
\* length N, the N it was called with, and N >= 1.
C11_DataSetAlignedNonEmpty ==
    inp.fn = "gen_mock_data" =>
        \A i \in 1..Len(out) :
            LET d == out[i].data
            IN /\ Len(d.x) = inp.N /\ Len(d.y) = inp.N /\ Len(d.ye) = inp.N
               /\ Len(d.x) >= 1

\* the arrays d are what the stream of RandomState(seed) gives when read in
\* the order x (N draws, then sorted), intrinsic scatter, yerr, observation
InDrawOrder(d) ==
    LET N == inp.N
    IN /\ \A k \in 1..(N - 1) : d.x[k] <= d.x[k + 1]
       /\ \A v \in 0..2 :
            Cardinality({k \in 1..N : d.x[k] = v})
                = Cardinality({k \in 1..N : Draw(inp.seed, k) = v})
       /\ \A k \in 1..N :
            /\ d.ye[k] = inp.unc[1]
                  + ((inp.unc[2] - inp.unc[1]) * Draw(inp.seed, 2 * N + k)) \div 3
            /\ d.y[k] = inp.m * d.x[k] + inp.b
                  + inp.s * (Draw(inp.seed, N + k) - 1)
                  + d.ye[k] * (Draw(inp.seed, 3 * N + k) - 1)

\* every call so far returned the same arrays, read in the fixed order
SameDataEveryCall ==
    inp.fn = "gen_mock_data" =>
        /\ \A i, j \in 1..Len(out) : out[i].data = out[j].data
        /\ \A i \in 1..Len(out) : InDrawOrder(out[i].data)

\* C17: two calls of gen_mock_data with the same arguments return the same
\* x, y, sigma whatever was drawn from the global generator between them; a
\* call leaves the global generator where it stood; the draws are taken in
\* the order x, intrinsic-scatter y, sigma, observed y, and x is returned
\* sorted.  (SpecGen)
C17_DeterministicAndIsolated ==
    /\ []SameDataEveryCall
    /\ [][Len(out') # Len(out) => grng' = grng]_vars

\* gen_mock_data was called twice, for two or more points with intrinsic
\* scatter, and the global generator was drawn from between the two calls
C17_Witness ==
    /\ inp.fn = "gen_mock_data" /\ Len(out) = 2
    /\ out[1].at < out[2].at
    /\ inp.N >= 2 /\ inp.s > 0
    /\ out[2].data.x[1] < out[2].data.x[inp.N]

----------------------------------------------------------------------------
\* More claims about the objectives, checked under SpecFn.

\* 0.5 * sum_i [ (y_i - (m x_i + b))^2 / v_i + ln(2 pi v_i) ] with
\* v_i = sigma_i^2 + s^2, written out on the arguments of the call
HalfSumOverPoints ==
    LET m == inp.theta[1]
        b == inp.theta[2]
        sc == inp.theta[3]
    IN FHalf(FSum([i \in 1..Len(inp.x) |->
            LET r == inp.y[i] - (m * inp.x[i] + b)
                v == inp.ye[i] * inp.ye[i] + sc * sc
            IN FAdd(FDiv(r * r, v), FLogTwoPi(v))]))

\* C13: negloglike called with theta = (m, b, s) on a DataSet with every
\* sigma_i^2 + s^2 > 0 returns what it returns at (m, b, -s), and that value
\* is 0.5 * sum_i [ (y_i - (m x_i + b))^2 / v_i + ln(2 pi v_i) ], the factor
\* 0.5 applied to both terms.
C13_LikelihoodFormula ==
    (/\ Called("negloglike") /\ Len(inp.theta) = 3
     /\ IsDataSet(inp.x, inp.y, inp.ye)
     /\ \A i \in 1..Len(inp.ye) : inp.ye[i] * inp.ye[i] + inp.theta[3] * inp.theta[3] > 0)
    => /\ Get(out) = negloglike(NegS(inp.theta), inp.x, inp.y, inp.ye)
       /\ Get(out) = HalfSumOverPoints

\* negloglike returned a finite, non-zero value at s # 0 on a DataSet of two
\* or more points that has a sigma_i = 0 and a non-zero residual
C13_Witness ==
    /\ Called("negloglike") /\ Len(inp.theta) = 3 /\ inp.theta[3] # 0
    /\ IsDataSet(inp.x, inp.y, inp.ye) /\ Len(inp.x) >= 2
    /\ \E i \in 1..Len(inp.ye) : inp.ye[i] = 0
    /\ \E i \in 1..Len(inp.x) : inp.y[i] # inp.theta[1] * inp.x[i] + inp.theta[2]
    /\ IsFinite(Get(out)) /\ Get(out).v # 0

----------------------------------------------------------------------------
\* Claims about the naive statistic, checked under SpecNaive.

\* the statistic has been evaluated at s1 and at s2 > s1 >= 0 on a DataSet
\* with every sigma_i > 0
NaiveEvaluated ==
    /\ inp.fn = "chi2_naive" /\ Len(out) = 2
    /\ \A i \in 1..Len(inp.ye) : inp.ye[i] > 0

\* some point is off the line y = m x + b
SomeResidual ==
    \E i \in 1..Len(inp.x) : inp.y[i] # inp.m * inp.x[i] + inp.b

\* C14 as stated: for sigma_i > 0 and 0 <= s1 < s2 the naive chi-square at s2
\* is smaller than at s1.
C14_StrictlyDecreasing ==
    NaiveEvaluated => (IsFinite(out[1]) /\ IsFinite(out[2]) /\ out[2].v < out[1].v)

\* C14, amended: the naive chi-square at s2 is never larger than at s1, and
\* it is smaller when some residual is not zero.
C14_DecreasingUnlessPerfectFit ==
    NaiveEvaluated =>
        /\ IsFinite(out[1]) /\ IsFinite(out[2])
        /\ out[2].v <= out[1].v
        /\ SomeResidual => out[2].v < out[1].v

\* evaluated on two or more points, one on the line and one off it
C14_Witness ==
    /\ NaiveEvaluated /\ Len(inp.x) >= 2 /\ SomeResidual
    /\ \E i \in 1..Len(inp.x) : inp.y[i] = inp.m * inp.x[i] + inp.b
    /\ out[2].v > 0

----------------------------------------------------------------------------
\* More claims about the kernel.

\* the objective whose minimisation precedes the extraction of m_k, b_k
StageFn(k) ==
    CASE k = 2 -> "loss" [] k = 3 -> "chi2" [] k = 4 -> "negloglike"
      [] k = 5 -> "neglogpost"

\* C15: whenever the sampling cell binds posterior samples, `results` holds
\* the FitResult of the neglogpost minimisation; and whenever m_k, b_k (, s_k)
\* are extracted, `results` holds the FitResult of stage k's own
\* minimisation.  (SpecSample)
C15_ResultsIsOwnStage ==
    [][/\ (CellSample /\ ns'.post_samples # ns.post_samples)
            => Get(ns.results).of = "neglogpost"
       /\ \A k \in 2..5 : CellBest(k) => Get(ns.results).of = StageFn(k)]_vars

\* a minimisation of fn has just bound its FitResult to `results`
Minimised(fn) ==
    /\ nextId' # nextId
    /\ IsSome(ns'.results) /\ Get(ns'.results).of = fn

\* C16: a minimisation of neglogpost, or of loss, reports at its point x the
\* objective evaluated on the data and the prior that this very function
\* captured when it was defined, whatever the globals x, y, ye are bound to
\* by then and whatever data negloglike captured: for neglogpost, the
\* likelihood on neglogpost's own x, y, ye plus the prior term.  (SpecCapture)
C16_DefaultsCaptured ==
    [][/\ Minimised("neglogpost") =>
            LET r == Get(ns'.results)
                d == Get(defaults["neglogpost"])
            IN r.fun = FAdd(negloglike(r.x, d.x, d.y, d.ye),
                            neglogprior(r.x, d.mean, d.std))
       /\ Minimised("loss") =>
            LET r == Get(ns'.results)
                d == Get(defaults["loss"])
            IN r.fun = loss(r.x, 2, d.x, d.y)]_vars

\* neglogpost has been minimised while negloglike held other data than
\* neglogpost, on which the likelihood at the reported point differs, and
\* while the globals x, y, ye were bound to other data than neglogpost's
C16_Witness ==
    /\ IsSome(ns.results) /\ Get(ns.results).of = "neglogpost"
    /\ IsFinite(Get(ns.results).fun)
    /\ IsSome(defaults["negloglike"]) /\ IsSome(defaults["neglogpost"])
    /\ LET r == Get(ns.results)
           dl == Get(defaults["negloglike"])
           dp == Get(defaults["neglogpost"])
       IN /\ negloglike(r.x, dl.x, dl.y, dl.ye) # negloglike(r.x, dp.x, dp.y, dp.ye)
          /\ r.fun = neglogpost(r.x, dp.x, dp.y, dp.ye, dp.mean, dp.std)
          /\ Get(ns.y) # dp.y

====
